---- MODULE Spec2Model ----
(***************************************************************************)
(* Model of the hybrid array/hash table of src/Table.h and of the key      *)
(* model of src/HashWrapper.h.                                             *)
(*                                                                         *)
(* Pointers into the hash segment (Node* ) are slot indices; nullptr is    *)
(* NullPtr.  A shared_ptr<Value> is a positive number, nullptr is NULL.    *)
(* A Hash (unsigned long long) produced by hash_STR is computed on four     *)
(* 16-bit limbs, so shifts and additions wrap exactly as in the code.      *)
(***************************************************************************)
EXTENDS Integers, Sequences, FiniteSets, TLC

\* ---------------------------------------------------------------- bounds
MaxOps == 4           \* calls made on the table in one run
MaxVal == 2           \* values stored are 1..MaxVal
MaxN == 16            \* bulk scenario inserts the Integer keys 1..MaxN
MaxCollide == 4       \* collision scenario inserts at most this many colliding keys
MaxDeep == 10         \* calls made in one run of insert and erase alone

\* ------------------------------------------------------- program constants
MAX_BIT == 64
STR_SEED == 1829732
RECOMPUTE_BITS == 31  \* std::min(MAX_BIT, 31), the bit lengths recompute_size looks at

NULL == 0             \* an empty shared_ptr<Value>
NullPtr == -1         \* Node* nullptr
Uninit == -2          \* a Node* member no constructor has written
NotFound == -1        \* query's empty optional
Throw == -4           \* get_hash raising std::runtime_error (a Hash is never negative)
Hang == -3            \* a chain walk that never ends
Zero == -5            \* a Value holding T(), what into<T>() leaves for a missing key

\* ---------------------------------------------------------------- Key model
INT == "INT"
STR == "STR"
H == "H"

NullKey == [tag |-> "NULL", i |-> 0, s |-> <<>>, ty |-> ""]
IntKey(n) == [tag |-> INT, i |-> n, s |-> <<>>, ty |-> ""]
StrKey(str) == [tag |-> STR, i |-> 0, s |-> str, ty |-> ""]
HKey(type, inner) == [tag |-> H, i |-> inner, s |-> <<>>, ty |-> type]

\* Key::operator==
KeyEq(a, b) ==
  IF a.tag # b.tag THEN FALSE
  ELSE CASE a.tag = INT -> a.i = b.i
         [] a.tag = STR -> a.s = b.s
         [] a.tag = H -> (a.ty = b.ty /\ a.i = b.i)   \* Holder::equals: same type, then inner ==
         [] OTHER -> FALSE

Pow2(n) == 2 ^ n

\* A Hash under computation is four 16-bit limbs, least significant first
LIMB == 65536
RECURSIVE XorNat(_, _)
XorNat(a, b) ==
  IF a = 0 /\ b = 0 THEN 0
  ELSE (((a % 2) + (b % 2)) % 2) + (2 * XorNat(a \div 2, b \div 2))
NatToWord(n) == <<n % LIMB, n \div LIMB, 0, 0>>
WordToNat(w) == w[1] + LIMB * (w[2] + LIMB * (w[3] + LIMB * w[4]))
\* w << 5 and w >> 2, on 64 bits
Shl5(w) == <<(w[1] * 32) % LIMB,
            ((w[2] * 32) + (w[1] \div 2048)) % LIMB,
            ((w[3] * 32) + (w[2] \div 2048)) % LIMB,
            ((w[4] * 32) + (w[3] \div 2048)) % LIMB>>
Shr2(w) == <<(w[1] \div 4) + ((w[2] % 4) * 16384),
            (w[2] \div 4) + ((w[3] % 4) * 16384),
            (w[3] \div 4) + ((w[4] % 4) * 16384),
            w[4] \div 4>>
Xor64(a, b) == <<XorNat(a[1], b[1]), XorNat(a[2], b[2]), XorNat(a[3], b[3]), XorNat(a[4], b[4])>>
\* a + b mod 2^64: the carry out of the top limb is dropped
Add64(a, b) ==
  LET s1 == a[1] + b[1]
      s2 == a[2] + b[2] + (s1 \div LIMB)
      s3 == a[3] + b[3] + (s2 \div LIMB)
      s4 == a[4] + b[4] + (s3 \div LIMB)
  IN <<s1 % LIMB, s2 % LIMB, s3 % LIMB, s4 % LIMB>>

\* Key::hash_INT, also Int::hash: ~i = -i - 1
hash_INT(i) == IF i >= 0 THEN i ELSE -i - 1

\* Key::hash_STR on a sequence of bytes
RECURSIVE hash_STR_from(_, _, _)
hash_STR_from(str, n, hash) ==
  IF n > Len(str) THEN hash
  ELSE hash_STR_from(str, n + 1,
         Xor64(hash, Add64(Add64(Shl5(hash), Shr2(hash)), NatToWord(str[n]))))
hash_STR(str) == WordToNat(hash_STR_from(str, 1, NatToWord(STR_SEED)))

\* the strings used as keys, and their hashes computed once
STR_a == <<97>>
STR_b == <<98>>
StrHash == (STR_a :> hash_STR(STR_a)) @@ (STR_b :> hash_STR(STR_b))

\* register_hashes(): the registry after main's first statement
hash_functions == {"Int"}

\* get_hash without the lookup of the registered type: the hash of the
\* wrapped value is taken whether its type was registered or not
get_hash_unchecked(k, cache) == IF cache # 0 THEN cache ELSE hash_INT(k.i)

\* get_hash: the cached hash if any, else the registered function, else throw.
\* cache is the wrapper's hash member (0: not yet computed).
get_hash(k, cache) ==
  IF cache # 0 THEN cache
  ELSE IF k.ty \in hash_functions THEN hash_INT(k.i)
  ELSE Throw

\* Key::hash(); hc maps every Extensible key to its wrapper's cached hash
Key_hash(k, hc) ==
  CASE k.tag = INT -> hash_INT(k.i)
    [] k.tag = STR -> StrHash[k.s]
    [] k.tag = H -> get_hash(k, hc[k])

\* ------------------------------------------------------------------ Table
\* A table value: the members of class Table, and with them what one call
\* needs to carry: hc (the hash caches of the Extensible keys), ub (the
\* call executed undefined behaviour), st (how the call ended), nres /
\* live_pre / live_post (the resizes of this call and the live entries
\* around the last of them).
\* Where a statement is undefined the operators go on as if it had no
\* effect, or stop with st = "undef" where nothing can go on (a pointer of
\* no known value is followed); the action that makes the call then chooses
\* what the process did: it crashed, it went on with its memory corrupted
\* (nothing it holds can be relied on), or the statement had no effect.
UBOutcomes == {"crash", "corrupt", "silent"}

\* Node::Node(): vacancy_next is not initialised
Node0 == [key |-> NullKey, value |-> NULL, next |-> NullPtr, vacancy_next |-> Uninit]
\* Node::Node(key, value)
Node(key, value) == [key |-> key, value |-> value, next |-> NullPtr, vacancy_next |-> NullPtr]

hash_size(T) == Pow2(T.hash_size_log2)
array_size(T) == Pow2(T.array_size_log2)

\* Table::Table(array_size_log2, hash_size_log2)
NewTable(asl, hsl, hc) ==
  [array |-> [i \in 0..(Pow2(asl) - 1) |-> NULL],
   hash |-> [i \in 0..(Pow2(hsl) - 1) |-> Node0],
   vacancy_head |-> NullPtr,
   array_size_log2 |-> asl,
   hash_size_log2 |-> hsl,
   last_free |-> Pow2(hsl) - 1,
   hc |-> hc, ub |-> FALSE, st |-> "ok", nres |-> 0, live_pre |-> 0, live_post |-> 0]

\* the array test with the bound one too low: the last array slot is
\* never used
in_array_short(T, key) == key.tag = INT /\ key.i >= 0 /\ key.i + 1 < array_size(T)

\* key->type() == INT && key->item() < array_size(): item() is converted to
\* unsigned long, so a negative Integer is never below array_size()
in_array(T, key) == key.tag = INT /\ key.i >= 0 /\ key.i < array_size(T)

\* Table::main_pos: hash & (hash_size - 1), or Throw
main_pos(T, key) ==
  LET h == Key_hash(key, T.hc)
  IN IF h = Throw THEN Throw ELSE h % hash_size(T)

\* Table::is_empty
is_empty(T, node) == node = NullPtr \/ T.hash[node].value = NULL

\* the chain walk of query and erase: <<mp, last>> where the loop stops, or
\* <<Hang, Hang>> when the loop has not stopped after visiting more
\* nodes than the segment has (it never will: the links cycle)
RECURSIVE walk(_, _, _, _, _)
walk(T, key, mp, last, fuel) ==
  IF is_empty(T, mp) \/ KeyEq(T.hash[mp].key, key) THEN <<mp, last>>
  ELSE IF fuel = 0 THEN <<Hang, Hang>>
  ELSE walk(T, key, T.hash[mp].next, mp, fuel - 1)

\* Table::query after the loop, mp being where the walk stopped
query_at(T, mp) ==
  IF mp = Hang THEN Hang
  ELSE IF is_empty(T, mp) THEN NotFound
  ELSE T.hash[mp].value

\* Table::query: the value found, NotFound, or Throw / Hang (no value returned)
query(T, key) ==
  IF in_array(T, key)
  THEN IF T.array[key.i] # NULL THEN T.array[key.i] ELSE NotFound
  ELSE IF main_pos(T, key) = Throw THEN Throw
  ELSE query_at(T, walk(T, key, main_pos(T, key), NullPtr, hash_size(T))[1])

\* Table::free
free(T, node) ==
  [T EXCEPT !.hash[node] =
              [key |-> NullKey, value |-> NULL, next |-> NullPtr,
               vacancy_next |-> IF T.vacancy_head # NullPtr THEN T.vacancy_head ELSE NullPtr],
            !.vacancy_head = node]

\* Table::get_free_pos, first loop: the vacancy list
RECURSIVE vacancy_scan(_)
vacancy_scan(T) ==
  IF T.vacancy_head = NullPtr THEN [T |-> T, pos |-> NullPtr]
  ELSE IF T.vacancy_head = Uninit
       THEN [T |-> [T EXCEPT !.st = "undef", !.ub = TRUE], pos |-> NullPtr]
  ELSE IF is_empty(T, T.vacancy_head) THEN [T |-> T, pos |-> T.vacancy_head]
  ELSE vacancy_scan([T EXCEPT !.hash[T.vacancy_head].vacancy_next = NullPtr,
                              !.vacancy_head = T.hash[T.vacancy_head].vacancy_next])

\* Table::get_free_pos, second loop: the scan cursor
RECURSIVE cursor_scan(_)
cursor_scan(T) ==
  IF T.hash[T.last_free].value = NULL THEN [T |-> T, pos |-> T.last_free]
  ELSE IF T.last_free = 0 THEN [T |-> T, pos |-> NullPtr]
  ELSE cursor_scan([T EXCEPT !.last_free = T.last_free - 1])

\* get_free_pos after its first loop returned r
get_free_pos_cursor(r) ==
  IF r.pos # NullPtr \/ r.T.st # "ok" THEN r ELSE cursor_scan(r.T)

\* Table::get_free_pos: the table after the call and the node returned
get_free_pos(T) == get_free_pos_cursor(vacancy_scan(T))

\* Table::erase after the loop, w = <<mp, last>> being where the walk stopped
erase_at(T, mp, last) ==
  IF mp = Hang THEN [T EXCEPT !.st = "hang"]
  ELSE IF mp = NullPtr THEN T
  ELSE IF T.hash[mp].next = NullPtr /\ last = NullPtr THEN free(T, mp)
  ELSE IF last = NullPtr
       THEN free([T EXCEPT !.hash[mp] = T.hash[T.hash[mp].next]], T.hash[mp].next)
  ELSE free([T EXCEPT !.hash[last].next = T.hash[mp].next], mp)

erase_walked(T, w) == erase_at(T, w[1], w[2])

\* Table::erase
erase(T, key) ==
  IF in_array(T, key) THEN [T EXCEPT !.array[key.i] = NULL]
  ELSE IF main_pos(T, key) = Throw THEN [T EXCEPT !.st = "throw"]
  ELSE erase_walked(T, walk(T, key, main_pos(T, key), NullPtr, hash_size(T)))

\* Table::bit: the position of the highest set bit of x >= 1
RECURSIVE bit(_)
bit(x) == IF x <= 1 THEN 0 ELSE 1 + bit(x \div 2)

\* the live entries: occupied array slots plus occupied hash slots
live_count(T) ==
  Cardinality({i \in DOMAIN T.array : T.array[i] # NULL})
    + Cardinality({i \in DOMAIN T.hash : T.hash[i].value # NULL})

\* the predecessor search of insert: <<first, last>> when the loop stops
RECURSIVE find_pred(_, _, _, _, _)
find_pred(T, mp, first, last, fuel) ==
  IF first = mp \/ first = NullPtr THEN <<first, last>>
  ELSE IF fuel = 0 THEN <<Hang, Hang>>
  ELSE find_pred(T, mp, T.hash[first].next, first, fuel - 1)

RECURSIVE insert(_, _, _)
RECURSIVE resize(_, _, _)

\* push_into_counter
push_into_counter(counter, i) ==
  IF i >= 1 THEN [counter EXCEPT ![bit(i)] = counter[bit(i)] + 1] ELSE counter

\* recompute_size, first loop: the array slots 1..array_size-1
RECURSIVE count_array(_, _, _)
count_array(T, i, c) ==
  IF i >= array_size(T) THEN c
  ELSE IF T.array[i] # NULL
       THEN count_array(T, i + 1, [counter |-> push_into_counter(c.counter, i),
                                   hash_part |-> c.hash_part + 1])
       ELSE count_array(T, i + 1, c)

\* recompute_size, second loop: the hash slots
RECURSIVE count_hash(_, _, _)
count_hash(T, i, c) ==
  IF i >= hash_size(T) THEN c
  ELSE IF ~is_empty(T, i)
       THEN count_hash(T, i + 1,
              [counter |-> IF T.hash[i].key.tag = INT
                           THEN push_into_counter(c.counter, T.hash[i].key.i)
                           ELSE c.counter,
               hash_part |-> c.hash_part + 1])
       ELSE count_hash(T, i + 1, c)

\* recompute_size, third loop: the largest array size more than half full
RECURSIVE choose_array(_, _, _, _)
choose_array(counter, i, total, r) ==
  IF i >= RECOMPUTE_BITS THEN r
  ELSE choose_array(counter, i + 1, total + counter[i],
         IF total + counter[i] > Pow2(i)
         THEN [new_array_size_log2 |-> i + 1, array_part |-> total + counter[i]]
         ELSE r)

\* std::max(1u, bit(hash_part) + 1)
hash_log2_for(hash_part) == IF bit(hash_part) + 1 > 1 THEN bit(hash_part) + 1 ELSE 1

\* the live entries after the resize, for the record
resized(T) == [T EXCEPT !.live_post = live_count(T)]

\* recompute_size from the third loop on, c being what the first two counted
recompute_counted(T, c, r) ==
  resized(resize([T EXCEPT !.nres = T.nres + 1, !.live_pre = live_count(T)],
                 r.new_array_size_log2, hash_log2_for(c.hash_part - r.array_part)))

recompute_choose(T, c) ==
  recompute_counted(T, c,
    choose_array(c.counter, 0, 1, [new_array_size_log2 |-> 0, array_part |-> 0]))

\* Table::recompute_size
recompute_size(T) ==
  recompute_choose(T, count_hash(T, 0, count_array(T, 1,
    [counter |-> [b \in 0..(MAX_BIT - 1) |-> 0], hash_part |-> 2])))

\* a new_table that resized itself leaves array1 dangling in the resize
\* that is filling it
filled(N) == IF N.nres > 0 THEN [N EXCEPT !.st = "undef", !.ub = TRUE] ELSE N

\* resize, second loop: the array slots from boundary on go through insert
RECURSIVE move_array(_, _, _)
move_array(T, NT, i) ==
  IF NT.st # "ok" \/ i >= array_size(T) THEN NT
  ELSE IF T.array[i] = NULL
       THEN \* array2[i]->has_value() on an empty shared_ptr: undefined
            move_array(T, [NT EXCEPT !.ub = TRUE], i + 1)
       ELSE move_array(T, filled(insert(NT, IntKey(i), T.array[i])), i + 1)

\* resize, third loop: the hash slots
RECURSIVE move_hash(_, _, _)
move_hash(T, NT, i) ==
  IF NT.st # "ok" \/ i >= hash_size(T) THEN NT
  ELSE IF is_empty(T, i) THEN move_hash(T, NT, i + 1)
  ELSE IF T.hash[i].key.tag = INT /\ T.hash[i].key.i < array_size(NT)
       THEN IF T.hash[i].key.i >= 0
            THEN move_hash(T, [NT EXCEPT !.array[T.hash[i].key.i] = T.hash[i].value], i + 1)
            ELSE \* array1[negative]: a write before the array, undefined
                 move_hash(T, [NT EXCEPT !.ub = TRUE], i + 1)
       ELSE move_hash(T, filled(insert(NT, T.hash[i].key, T.hash[i].value)), i + 1)

\* the first loop of resize stopping one slot early
move_prefix_short(T, new_table, boundary) ==
  [new_table EXCEPT !.array =
     [i \in DOMAIN new_table.array |-> IF i < boundary - 1 THEN T.array[i] ELSE NULL]]

\* resize, first loop: the slots below boundary move to the new array
move_prefix(T, new_table, boundary) ==
  [new_table EXCEPT !.array =
     [i \in DOMAIN new_table.array |-> IF i < boundary THEN T.array[i] ELSE NULL]]

\* resize, the swap of the segments and the bookkeeping
resize_swap(T, new_array_size_log2, new_hash_size_log2, new_table) ==
  [T EXCEPT !.array = new_table.array, !.hash = new_table.hash,
            !.array_size_log2 = new_array_size_log2,
            !.hash_size_log2 = new_hash_size_log2,
            !.vacancy_head = new_table.vacancy_head,
            !.last_free = new_table.last_free,
            !.st = new_table.st,
            !.ub = T.ub \/ new_table.ub]

resize_from(T, new_array_size_log2, new_hash_size_log2, boundary) ==
  resize_swap(T, new_array_size_log2, new_hash_size_log2,
    move_hash(T,
      move_array(T,
        move_prefix(T, NewTable(new_array_size_log2, new_hash_size_log2, T.hc),
                    boundary),
        boundary),
      0))

\* Table::resize
resize(T, new_array_size_log2, new_hash_size_log2) ==
  resize_from(T, new_array_size_log2, new_hash_size_log2,
              IF array_size(T) < Pow2(new_array_size_log2)
              THEN array_size(T) ELSE Pow2(new_array_size_log2))

\* insert, the occupant of mp is the head of its chain: splice after it
insert_splice(F, key, value, mp, free_pos) ==
  [F EXCEPT !.hash[free_pos] = [Node(key, value) EXCEPT !.next = F.hash[mp].next],
            !.hash[mp].next = free_pos]

\* insert, the occupant of mp is displaced and last is what the predecessor
\* search left: the statements of the else branch, in order
insert_relocate(F, key, value, mp, free_pos, last) ==
  IF last = Hang THEN [F EXCEPT !.st = "hang"]
  ELSE [F EXCEPT !.hash[free_pos] = Node(F.hash[last].key, F.hash[last].value),
                 !.hash[free_pos].next = F.hash[mp].next,
                 !.hash[last].next = free_pos,
                 !.hash[mp] = Node(key, value)]

\* insert that recomputes the sizes a second time before it retries
insert_free_twice(F, key, value, mp, free_pos) ==
  IF F.st # "ok" THEN F
  ELSE IF free_pos = NullPtr
  THEN insert(recompute_size(recompute_size(F)), key, value)
  ELSE IF main_pos(F, F.hash[mp].key) = mp
  THEN insert_splice(F, key, value, mp, free_pos)
  ELSE insert_relocate(F, key, value, mp, free_pos,
         find_pred(F, mp, main_pos(F, F.hash[mp].key), NullPtr, hash_size(F))[2])

\* insert once get_free_pos has returned free_pos, leaving the table F
insert_free(F, key, value, mp, free_pos) ==
  IF F.st # "ok" THEN F
  ELSE IF free_pos = NullPtr THEN insert(recompute_size(F), key, value)
  ELSE IF main_pos(F, F.hash[mp].key) = mp
  THEN insert_splice(F, key, value, mp, free_pos)
  ELSE insert_relocate(F, key, value, mp, free_pos,
         find_pred(F, mp, main_pos(F, F.hash[mp].key), NullPtr, hash_size(F))[2])

insert_found(key, value, mp, fp) == insert_free(fp.T, key, value, mp, fp.pos)

\* insert on the hash segment, mp being the main position of key
insert_hash(T, key, value, mp) ==
  IF is_empty(T, mp) \/ KeyEq(T.hash[mp].key, key)
  THEN [T EXCEPT !.hash[mp] = Node(key, value)]
  ELSE insert_found(key, value, mp, get_free_pos(T))

\* Table::insert
insert(T, key, value) ==
  IF T.st # "ok" THEN T
  ELSE IF in_array(T, key) THEN [T EXCEPT !.array[key.i] = value]
  ELSE IF main_pos(T, key) = Throw THEN [T EXCEPT !.st = "throw"]
  ELSE insert_hash(T, key, value, main_pos(T, key))

\* ---------------------------------------------------------- state machine
VARIABLES array, hash, vacancy_head, array_size_log2, hash_size_log2, last_free,
          hcache, keys, steps, ref, last

vars == <<array, hash, vacancy_head, array_size_log2, hash_size_log2, last_free,
          hcache, keys, steps, ref, last>>
tvars == <<array, hash, vacancy_head, array_size_log2, hash_size_log2, last_free>>

Values == 1..MaxVal

\* the keys a caller uses in one run: small Integers with a negative one;
\* keys of the hash segment with equal and with adjacent hashes; a key of a
\* type that was never registered
HKeys == {HKey("Int", 1), HKey("Int", -2), HKey("Int", 7), HKey("Int", 9), HKey("Int", -10),
          HKey("Unreg", 1)}
\* Integer keys: two that a grown array takes, one beyond it, a negative one
IntRun == {IntKey(1), IntKey(3), IntKey(9), IntKey(-2)}
HashRun == {IntKey(1), HKey("Int", 1), HKey("Int", -2), StrKey(STR_b)}
UnregRun == {HKey("Unreg", 1), StrKey(STR_a), StrKey(STR_b), IntKey(1)}
Runs == {IntRun, HashRun, UnregRun}
\* keys of the hash segment whose main positions collide in a new table
CollideRun == {HKey("Int", 1), HKey("Int", 9), HKey("Int", 7), HKey("Int", -10), StrKey(STR_b)}
\* main's keys
BulkRun == {IntKey(n) : n \in 1..MaxN}

\* the table held in the variables
Cur ==
  [array |-> array, hash |-> hash, vacancy_head |-> vacancy_head,
   array_size_log2 |-> array_size_log2, hash_size_log2 |-> hash_size_log2,
   last_free |-> last_free,
   hc |-> hcache, ub |-> FALSE, st |-> "ok", nres |-> 0, live_pre |-> 0, live_post |-> 0]

Running == last.st \in {"ok", "throw"} /\ steps < MaxOps

\* what a call leaves behind: the members of the table it returns; a call
\* that crashed or hangs leaves the process with nothing to observe
Store(R, st) ==
  IF st \in {"ok", "throw"}
  THEN /\ array' = R.array
       /\ hash' = R.hash
       /\ vacancy_head' = R.vacancy_head
       /\ array_size_log2' = R.array_size_log2
       /\ hash_size_log2' = R.hash_size_log2
       /\ last_free' = R.last_free
  ELSE UNCHANGED tvars

\* Key::hash() called on the caller's key caches the hash in the wrapper
Cache(k) ==
  IF k.tag = H /\ get_hash(k, hcache[k]) # Throw
  THEN hcache' = [hcache EXCEPT ![k] = get_hash(k, hcache[k])]
  ELSE UNCHANGED hcache

\* Table table; with no key used yet
Table0 == NewTable(0, 1, [k \in HKeys |-> 0])

InitTable ==
  /\ array = Table0.array
  /\ hash = Table0.hash
  /\ vacancy_head = Table0.vacancy_head
  /\ array_size_log2 = Table0.array_size_log2
  /\ hash_size_log2 = Table0.hash_size_log2
  /\ last_free = Table0.last_free
  /\ hcache = Table0.hc
  /\ last = [op |-> "init", key |-> NullKey, value |-> NULL, ret |-> NotFound,
             st |-> "ok", nres |-> 0, live_pre |-> 0, live_post |-> 0]

Init ==
  /\ InitTable
  /\ keys \in Runs
  /\ steps = 0
  /\ ref = [k \in keys |-> NULL]

\* what the process can have done in a call that the model ends with R
Outcomes(R) ==
  IF ~R.ub THEN {"silent"}
  ELSE IF R.st = "undef" THEN UBOutcomes \ {"silent"}
  ELSE UBOutcomes

\* how a call that the model ends with R ended, for the outcome out
Ended(R, out) == IF out = "silent" THEN R.st ELSE out

\* the call insert(k, v) returned the table R, or crashed where it
\* executed undefined behaviour
Inserted(k, v, R) ==
  \E out \in Outcomes(R) :
    /\ Store(R, Ended(R, out))
    /\ Cache(k)
    /\ last' = [op |-> "insert", key |-> k, value |-> v, ret |-> NotFound,
                st |-> Ended(R, out), nres |-> R.nres,
                live_pre |-> R.live_pre, live_post |-> R.live_post]

Insert(k, v) ==
  /\ Running
  /\ Inserted(k, v, insert(Cur, k, v))
  /\ steps' = steps + 1
  /\ UNCHANGED <<keys, ref>>

\* the call erase(k) returned the table R (or did not return)
Erased(k, R) ==
  /\ Store(R, R.st)
  /\ Cache(k)
  /\ last' = [op |-> "erase", key |-> k, value |-> NULL, ret |-> NotFound,
              st |-> R.st, nres |-> 0, live_pre |-> 0, live_post |-> 0]

Erase(k) ==
  /\ Running
  /\ Erased(k, erase(Cur, k))
  /\ steps' = steps + 1
  /\ UNCHANGED <<keys, ref>>

\* the call query(k) returned r (or did not return)
Queried(k, r) ==
  /\ UNCHANGED tvars
  /\ Cache(k)
  /\ last' = [op |-> "query", key |-> k, value |-> NULL,
              ret |-> IF r \in {Throw, Hang} THEN NotFound ELSE r,
              st |-> IF r = Throw THEN "throw"
                     ELSE IF r = Hang THEN "hang" ELSE "ok",
              nres |-> 0, live_pre |-> 0, live_post |-> 0]

Query(k) ==
  /\ Running
  /\ Queried(k, query(Cur, k))
  /\ steps' = steps + 1
  /\ UNCHANGED <<keys, ref>>

Next ==
  \/ \E k \in keys, v \in Values : Insert(k, v)
  \/ \E k \in keys : Erase(k)
  \/ \E k \in keys : Query(k)

Spec == Init /\ [][Next]_vars

\* NodeReference::unwrap and into<T>() on table[key]: the value found, or
\* for a missing key the Dummy that is inserted and then replaced by T()
into(T, key) ==
  IF query(T, key) = NotFound
  THEN [T |-> insert(T, key, Zero), value |-> Zero]
  ELSE [T |-> T, value |-> query(T, key)]

\* main(): table[i] = 1 for the keys 1..N in ascending order, then
\* table[i].into<int>() for each of them; steps counts the inserts, and the
\* reads are those of the main whose N is steps
InitBulk ==
  /\ InitTable
  /\ keys = BulkRun
  /\ steps = 0
  /\ ref = [k \in keys |-> NULL]

BulkInsert ==
  /\ last.st = "ok"
  /\ steps < MaxN
  /\ Inserted(IntKey(steps + 1), 1, insert(Cur, IntKey(steps + 1), 1))
  /\ steps' = steps + 1
  /\ ref' = IF last'.st = "ok" THEN [ref EXCEPT ![IntKey(steps + 1)] = 1] ELSE ref
  /\ UNCHANGED keys

\* table[k].into<int>() returned r.value and left the table r.T
Read(k, r) ==
  \E out \in Outcomes(r.T) :
    /\ Store(r.T, Ended(r.T, out))
    /\ Cache(k)
    /\ last' = [op |-> "query", key |-> k, value |-> NULL,
                ret |-> IF r.value \in {Throw, Hang} THEN NotFound ELSE r.value,
                st |-> IF r.value = Throw THEN "throw"
                       ELSE IF r.value = Hang THEN "hang" ELSE Ended(r.T, out),
                nres |-> r.T.nres, live_pre |-> r.T.live_pre, live_post |-> r.T.live_post]

BulkQuery(k) ==
  /\ last.st = "ok"
  /\ k.i <= steps
  /\ Read(k, into(Cur, k))
  /\ UNCHANGED <<keys, steps, ref>>

NextBulk ==
  \/ BulkInsert
  \/ \E k \in keys : BulkQuery(k)

SpecBulk == InitBulk /\ [][NextBulk]_vars

\* the collision scenario: distinct keys of the hash segment, each inserted
\* once in any order and none erased; queries at any point. ref is what the
\* caller has stored: the value of the insert of each key that returned
InitCollide ==
  /\ InitTable
  /\ keys = CollideRun
  /\ steps = 0
  /\ ref = [k \in keys |-> NULL]

CollideInsert(k, v) ==
  /\ last.st = "ok"
  /\ steps < MaxCollide
  /\ ref[k] = NULL
  /\ Inserted(k, v, insert(Cur, k, v))
  /\ steps' = steps + 1
  /\ ref' = IF last'.st = "ok" THEN [ref EXCEPT ![k] = v] ELSE ref
  /\ UNCHANGED keys

CollideQuery(k) ==
  /\ last.st = "ok"
  /\ Queried(k, query(Cur, k))
  /\ UNCHANGED <<keys, steps, ref>>

NextCollide ==
  \/ \E k \in keys, v \in Values : CollideInsert(k, v)
  \/ \E k \in keys : CollideQuery(k)

SpecCollide == InitCollide /\ [][NextCollide]_vars

\* longer runs of insert and erase alone, every value 1: keys whose main
\* positions collide in the hash segment, and Integer keys that a grown
\* array takes in part
DeepRun == {HKey("Int", -10), IntKey(1), IntKey(5), IntKey(6)}
DeepIntRun == {IntKey(1), IntKey(3), IntKey(5), IntKey(9)}
DeepRuns == {DeepRun, DeepIntRun}

InitDeep ==
  /\ InitTable
  /\ keys \in DeepRuns
  /\ steps = 0
  /\ ref = [k \in keys |-> NULL]

DeepInsert(k) ==
  /\ last.st = "ok"
  /\ steps < MaxDeep
  /\ Inserted(k, 1, insert(Cur, k, 1))
  /\ steps' = steps + 1
  /\ UNCHANGED <<keys, ref>>

DeepErase(k) ==
  /\ last.st = "ok"
  /\ steps < MaxDeep
  /\ Erased(k, erase(Cur, k))
  /\ steps' = steps + 1
  /\ UNCHANGED <<keys, ref>>

NextDeep ==
  \/ \E k \in keys : DeepInsert(k)
  \/ \E k \in keys : DeepErase(k)

SpecDeep == InitDeep /\ [][NextDeep]_vars

\* ---------------------------------------------------------------- claims

\* the occupied slots of the hash segment
Occupied == {i \in DOMAIN hash : hash[i].value # NULL}

\* a and b are unequal keys with the same hash value
SameHash(a, b) ==
  /\ ~KeyEq(a, b)
  /\ Key_hash(a, hcache) # Throw
  /\ Key_hash(a, hcache) = Key_hash(b, hcache)

\* a call was made in this step
Called == steps' = steps + 1

\* C1: a call insert(k, v) with a key that has a hash returns, and the
\* query(k) made right after it returns v
InsertThenQuery ==
  (last.op = "insert" /\ last.st # "throw")
    => (last.st = "ok" /\ query(Cur, last.key) = last.value)

\* C2: the query(k) made right after an erase(k) that returned finds nothing
EraseThenQuery ==
  (last.op = "erase" /\ last.st = "ok") => query(Cur, last.key) = NotFound

\* C3: erase(k) changes the result of query(k2) for no key k2 other than k
EraseLeavesOthers ==
  [][(Called /\ last'.op = "erase" /\ last'.st = "ok")
       => \A k \in keys : ~KeyEq(k, last'.key) => query(Cur', k) = query(Cur, k)]_vars

\* no two occupied slots of the hash segment hold equal keys
NoDupKeys == \A i, j \in Occupied : i # j => ~KeyEq(hash[i].key, hash[j].key)

\* insert(k, v) of a key that query finds adds no live entry
InsertPresentAddsNone ==
  [][(Called /\ last'.op = "insert" /\ last'.st = "ok"
        /\ query(Cur, last'.key) \notin {NotFound, Throw, Hang})
       => live_count(Cur') <= live_count(Cur)]_vars

\* C4: in every state no two occupied hash slots hold equal keys, and
\* insert(k, v) of a key already present does not raise the number of live
\* entries
InsertOverwritesEqual == []NoDupKeys /\ InsertPresentAddsNone

\* C5: in every state no occupied hash slot holds an Integer key k with
\* 0 <= k < array_size
ArrayRangeNotInHash ==
  \A i \in Occupied :
    ~(hash[i].key.tag = INT /\ hash[i].key.i >= 0
        /\ hash[i].key.i < Pow2(array_size_log2))

\* an insert has just grown the array in a resize that kept every entry:
\* the array holds a value in its last slot and the hash segment holds an
\* Integer key beyond it
ArrayRangeWitness ==
  /\ last.op = "insert" /\ last.st = "ok"
  /\ last.nres = 1 /\ last.live_pre = last.live_post
  /\ array_size_log2 >= 1
  /\ array[Pow2(array_size_log2) - 1] # NULL
  /\ \E i \in Occupied : hash[i].key.tag = INT /\ hash[i].key.i >= Pow2(array_size_log2)

\* C6: when insert has called resize and returned, the number of live
\* entries right after resize returned is the number right before the call
ResizeKeepsLive ==
  (last.op = "insert" /\ last.nres > 0 /\ last.st = "ok")
    => last.live_pre = last.live_post

\* C7: once more distinct colliding keys than the new table has hash slots
\* are inserted, each once and none erased, query of every inserted key
\* returns the value inserted for it
CollideAllFound ==
  (last.st = "ok" /\ Cardinality({k \in keys : ref[k] # NULL}) > hash_size(Table0))
    => \A k \in keys : ref[k] # NULL => query(Cur, k) = ref[k]

\* two inserts in a row, of unequal keys with the same hash and of different
\* values: query of each key returns its own value
EqualHashBothFound ==
  [][(Called /\ last.op = "insert" /\ last.st = "ok"
        /\ last'.op = "insert" /\ last'.st = "ok"
        /\ SameHash(last.key, last'.key) /\ last.value # last'.value)
       => (query(Cur', last.key) = last.value
             /\ query(Cur', last'.key) = last'.value)]_vars

\* erase of one of two present unequal keys with the same hash leaves the
\* result of query of the other as it was
EqualHashEraseOne ==
  [][(Called /\ last'.op = "erase" /\ last'.st = "ok")
       => \A k \in keys :
            (SameHash(k, last'.key) /\ query(Cur, k) # NotFound
               /\ query(Cur, last'.key) # NotFound)
              => query(Cur', k) = query(Cur, k)]_vars

\* C8: unequal keys with the same hash, inserted with different values, are
\* each found with their own value, and erase of one leaves the other found
EqualHashDisambiguated == EqualHashBothFound /\ EqualHashEraseOne

\* the sum main computes over the keys 1..n: a key not found, or found
\* with T(), adds 0
RECURSIVE BulkTotal(_)
BulkTotal(n) ==
  IF n = 0 THEN 0
  ELSE BulkTotal(n - 1)
         + (IF into(Cur, IntKey(n)).value = Zero THEN 0 ELSE into(Cur, IntKey(n)).value)

\* C9: after the keys 1..n are inserted in ascending order with value 1,
\* query of each of them finds 1, and their sum is n
BulkSum ==
  last.st = "ok"
    /\ (\A n \in 1..steps : query(Cur, IntKey(n)) = 1)
    /\ BulkTotal(steps) = steps

\* all MaxN keys are inserted, through resizes that grew the array, and
\* the last of them was just queried
BulkWitness ==
  /\ steps = MaxN
  /\ array_size_log2 >= 3
  /\ last.op = "query" /\ last.key = IntKey(MaxN) /\ last.ret = 1

\* C10: a call with an Extensible key whose hash is not cached and whose
\* type is not registered raises, returns nothing and leaves the segments,
\* the vacancy list and the scan cursor as they were
UnregisteredThrows ==
  [][\A k \in keys :
       (Called /\ last'.key = k /\ k.tag = H /\ hcache[k] = 0
          /\ k.ty \notin hash_functions)
         => (last'.st = "throw" /\ last'.ret = NotFound /\ UNCHANGED tvars)]_vars

\* insert of a key of an unregistered type has raised on a table that holds
\* entries
UnregisteredWitness ==
  /\ last.op = "insert" /\ last.st = "throw"
  /\ last.key.tag = H /\ last.key.ty \notin hash_functions
  /\ live_count(Cur) >= 2

\* key k is outside the array range and the slot at its main position
\* holds a key equal to k
HeadEqual(k) ==
  /\ ~in_array(Cur, k)
  /\ main_pos(Cur, k) # Throw
  /\ ~is_empty(Cur, main_pos(Cur, k))
  /\ KeyEq(hash[main_pos(Cur, k)].key, k)

\* C11: insert(k, v) on a main-position slot that holds a key equal to k
\* leaves the next link of that slot as it was, and query of every other
\* key returns what it returned before the call
OverwriteKeepsLink ==
  [][\A k \in keys :
       (Called /\ last'.op = "insert" /\ last'.key = k /\ HeadEqual(k))
         => (hash'[main_pos(Cur, k)].next = hash[main_pos(Cur, k)].next
               /\ \A k2 \in keys : ~KeyEq(k2, k) => query(Cur', k2) = query(Cur, k2))]_vars

\* key k is outside the array range, the slot at its main position holds an
\* unequal key whose own main position is another slot, and get_free_pos
\* has a slot to return
HeadDisplaced(k) ==
  /\ ~in_array(Cur, k)
  /\ main_pos(Cur, k) # Throw
  /\ ~is_empty(Cur, main_pos(Cur, k))
  /\ ~KeyEq(hash[main_pos(Cur, k)].key, k)
  /\ main_pos(Cur, hash[main_pos(Cur, k)].key) # main_pos(Cur, k)
  /\ get_free_pos(Cur).pos # NullPtr
  /\ get_free_pos(Cur).T.st = "ok"

\* the occupied slots of table T whose key has the main position home
ChainSlots(T, home) ==
  {i \in DOMAIN T.hash : T.hash[i].value # NULL /\ main_pos(T, T.hash[i].key) = home}

\* no two of the slots in S of table T hold equal keys
NoDupIn(T, S) == \A i, j \in S : i # j => ~KeyEq(T.hash[i].key, T.hash[j].key)

\* what C12 says of an insert(k, v) that relocates the occupant occ of slot
\* mp into the free slot fp
RelocatedAt(k, mp, occ, fp) ==
  /\ last'.st = "ok"
  /\ hash'[fp].key = occ.key /\ hash'[fp].value = occ.value /\ hash'[fp].next = occ.next
  /\ KeyEq(hash'[mp].key, k) /\ hash'[mp].value = last'.value
  /\ query(Cur', occ.key) = occ.value
  /\ NoDupIn(Cur, ChainSlots(Cur, main_pos(Cur, occ.key)))
       => NoDupIn(Cur', ChainSlots(Cur', main_pos(Cur, occ.key)))

\* C12: insert(k, v) on a main position held by a displaced member of
\* another chain moves the occupant's key, value and next into the free
\* slot and stores (k, v) at the main position; query of the occupant's key
\* then returns the occupant's value and its home chain holds no key twice
RelocateMovesOccupant ==
  [][\A k \in keys :
       (Called /\ last'.op = "insert" /\ last'.key = k /\ HeadDisplaced(k))
         => RelocatedAt(k, main_pos(Cur, k), hash[main_pos(Cur, k)],
                        get_free_pos(Cur).pos)]_vars

\* the slots a walk by next links visits from slot cur until it is at slot
\* s; NullPtr is among them when the walk ends, or has made fuel steps,
\* without being at s
RECURSIVE ChainUpTo(_, _, _, _)
ChainUpTo(T, cur, s, fuel) ==
  IF cur = NullPtr \/ fuel = 0 THEN {NullPtr}
  ELSE IF cur = s THEN {s}
  ELSE {cur} \cup ChainUpTo(T, T.hash[cur].next, s, fuel - 1)

\* slot s is on the chain of the main position of the key it holds, and
\* every slot of the walk to it holds a key of that main position
OnHomeChain(T, s) ==
  \A t \in ChainUpTo(T, main_pos(T, T.hash[s].key), s, hash_size(T)) :
    /\ t # NullPtr
    /\ T.hash[t].value # NULL
    /\ main_pos(T, T.hash[t].key) = main_pos(T, T.hash[s].key)

\* C13: in every state every occupied hash slot is reached by next links
\* from the main position of its key, through slots that hold keys of the
\* same main position
ChainHead == \A s \in Occupied : OnHomeChain(Cur, s)

\* insert(k, v) on the table held in the variables reaches recompute_size
Resizes(k) ==
  /\ ~in_array(Cur, k)
  /\ main_pos(Cur, k) # Throw
  /\ ~is_empty(Cur, main_pos(Cur, k))
  /\ ~KeyEq(hash[main_pos(Cur, k)].key, k)
  /\ get_free_pos(Cur).T.st = "ok"
  /\ get_free_pos(Cur).pos = NullPtr

\* the table recompute_size returns to insert, before the retry
AfterResize == recompute_size(get_free_pos(Cur).T)

\* what C14 says of the table R that a call of insert ends with: at most
\* one resize, and after it the retry has stored the key (no second
\* recompute_size, in this table or in the one resize was filling)
ResizedOnce(R) == R.nres <= 1 /\ (R.nres = 1 => R.st = "ok")

\* table R has room for key k: k falls in its array range, or its hash
\* segment has an empty slot
HasRoom(R, k) == in_array(R, k) \/ \E i \in DOMAIN R.hash : R.hash[i].value = NULL

\* C14: every call of insert makes at most one resize, the table the
\* resize returns has room for the key, and the retry completes without
\* calling recompute_size again
InsertResizesOnce ==
  [][\A k \in keys :
       (Called /\ last'.op = "insert" /\ last'.key = k)
         => /\ last'.nres <= 1
            /\ last'.nres > 0
                 => (ResizedOnce(insert(Cur, k, last'.value))
                       /\ HasRoom(AfterResize, k))]_vars

\* an insert has resized and returned, and its retry took a slot from
\* get_free_pos: the key is stored away from its main position
ResizeOnceWitness ==
  /\ last.op = "insert" /\ last.st = "ok" /\ last.nres = 1
  /\ \E i \in Occupied : KeyEq(hash[i].key, last.key) /\ main_pos(Cur, last.key) # i

\* C15: insert calls recompute_size only when every slot of the hash
\* segment is occupied: get_free_pos returns an empty slot whenever there
\* is one
ResizeOnlyWhenFull ==
  [][(Called /\ last'.op = "insert" /\ last'.nres > 0)
       => \A i \in DOMAIN hash : hash[i].value # NULL]_vars

\* table R has every key other than k as the table in the variables has it
SameOthers(R, k) ==
  /\ ~R.ub /\ R.st = "ok"
  /\ \A k2 \in keys : ~KeyEq(k2, k) => query(R, k2) = query(Cur, k2)

\* C16: the resize that insert(k, v) triggers executes no undefined
\* statement, and query of every key other than k returns right after it
\* what it returned right before it
ResizeKeepsOthers ==
  [][\A k \in keys :
       (Called /\ last'.op = "insert" /\ last'.key = k /\ Resizes(k))
         => SameOthers(AfterResize, k)]_vars

\* table R is the table in the variables after a resize to a smaller array
\* that executed no undefined statement and kept, in its hash segment,
\* every live array slot beyond the new bound
ShrunkWell(R) ==
  /\ ~R.ub /\ R.st = "ok"
  /\ \A i \in DOMAIN array :
       (i >= array_size(R) /\ array[i] # NULL)
         => (\E j \in DOMAIN R.hash : R.hash[j].key = IntKey(i) /\ R.hash[j].value = array[i])

\* C17: a resize that makes the array smaller completes without a fault,
\* skips the empty array slots beyond the new bound and re-inserts the live
\* ones into the hash segment of the new table
ShrinkCompletes ==
  [][\A k \in keys :
       (Called /\ last'.op = "insert" /\ last'.key = k /\ Resizes(k)
          /\ AfterResize.array_size_log2 < array_size_log2)
         => ShrunkWell(AfterResize)]_vars

\* the live Integer keys of the table in the variables
LiveInts ==
  {i \in DOMAIN array : array[i] # NULL}
    \cup {hash[j].key.i : j \in {j \in Occupied : hash[j].key.tag = INT}}

\* the array sizes 2^(i+1) that more than 2^i live Integer keys fall below;
\* no size above 2^(RECOMPUTE_BITS - 1) can be more than half full here
HalfFull ==
  {i + 1 : i \in {i \in 0..(RECOMPUTE_BITS - 2) :
                    Cardinality({n \in LiveInts : n >= 0 /\ n < Pow2(i + 1)}) > Pow2(i)}}

\* the log2 of the array size that the rule of C18 gives
LargestHalfFull ==
  IF HalfFull = {} THEN 0 ELSE CHOOSE n \in HalfFull : \A m \in HalfFull : m <= n

\* C18: the array size recompute_size chooses is the largest 2^(i+1) that
\* more than 2^i live Integer keys fall below, or 1 when there is none
ArraySizeByRule ==
  [][\A k \in keys :
       (Called /\ last'.op = "insert" /\ last'.key = k /\ Resizes(k))
         => AfterResize.array_size_log2 = LargestHalfFull]_vars

\* C19: erase(k) of a key that query does not find returns and leaves the
\* array, the hash slots, the vacancy list and the scan cursor as they were
EraseAbsentNoOp ==
  [][\A k \in keys :
       (Called /\ last'.op = "erase" /\ last'.key = k /\ query(Cur, k) = NotFound)
         => (last'.st = "ok" /\ UNCHANGED tvars)]_vars

\* a walk by next links from slot s is at the end of the chain or at an
\* empty slot after at most fuel steps
RECURSIVE WalkEnds(_, _, _)
WalkEnds(T, s, fuel) ==
  IF is_empty(T, s) THEN TRUE
  ELSE IF fuel = 0 THEN FALSE
  ELSE WalkEnds(T, T.hash[s].next, fuel - 1)

\* C20: in every state the next links are acyclic: a walk from any slot
\* ends after at most hash_size steps, and no call hangs in a chain walk
ChainsAcyclic ==
  /\ last.st # "hang"
  /\ \A s \in DOMAIN hash : WalkEnds(Cur, s, hash_size(Cur))

====
